---------------------------- MODULE Spec2Model ----------------------------
(***************************************************************************)
(* Lectra: the lecture-analysis pipeline (App.runPipeline), the retry      *)
(* helper of the reasoning-service client (geminiService.withRetry) and    *)
(* the quiz session of QuizView, as one state machine.                     *)
(*                                                                         *)
(* React state is the model's state.  A handler runs to its next await in  *)
(* one step; the code after an await runs in one step when the awaited     *)
(* promise settles.  A render that throws unmounts the whole tree (there   *)
(* is no error boundary), after which nothing is observable any more.      *)
(***************************************************************************)
EXTENDS Integers, Sequences, FiniteSets, Bags, TLC

\* ------------------------------------------------------------------ bounds
MaxQ == 2          \* longest quiz the service returns
MaxRuns == 2       \* pipeline runs started in one behaviour
MaxInFlight == 2   \* handler executions suspended at the same time

\* ------------------------------------------------------- program constants
maxRetries == 3    \* withRetry(fn, maxRetries = 3)
BaseMs == 1000     \* Math.pow(2, i) * 1000
JitterMs == 1000   \* Math.random() * 1000

\* Math.random() * 1000 lies in [0, 1000): the least and the greatest
\* jitter in whole milliseconds.
Jitters == {0, JitterMs - 1}

\* ------------------------------------------------------------------ errors
\* An error is its message, and a message is what err.message?.includes()
\* can find in it: the set of the marker texts it contains.  An error
\* without a message (err.message undefined) has defined = FALSE.
Err(tokens) == [defined |-> TRUE, tokens |-> tokens]
ErrNoMessage == [defined |-> FALSE, tokens |-> {}]
NoError == [defined |-> FALSE, tokens |-> {"<none>"}]

\* What ai.models.generateContent rejects with: the service's quota
\* error, whose text holds both markers, a transport error, and an error
\* without a message.  MarkerErrors hold one marker each.
ServiceErrors ==
    { Err({"429", "RESOURCE_EXHAUSTED"}), Err({"fetch failed"}), ErrNoMessage }
MarkerErrors == { Err({"429"}), Err({"RESOURCE_EXHAUSTED"}) }

\* What JSON.parse throws on a text that is not JSON.
SyntaxError == Err({"Unexpected token"})

includes(e, marker) == e.defined /\ marker \in e.tokens

\* Mutant of isQuotaError: every error is retried.
isQuotaErrorAny(e) == TRUE

isQuotaError(e) == includes(e, "429") \/ includes(e, "RESOURCE_EXHAUSTED")

\* The specification's classes of a failure, by where it arose.
Classify(e) ==
    IF e.defined /\ e.tokens \cap {"429", "RESOURCE_EXHAUSTED"} # {}
    THEN "RateLimited"
    ELSE IF e = SyntaxError THEN "SchemaViolation" ELSE "Generic"

\* ---------------------------------------------------------------- payloads
\* A quiz question: its options and its correct_answer.  An option is any
\* string, the empty one included (the schema asks for strings, no more).
\* qZ names an answer that is none of its options.
Options == <<"a", "">>
qA == [options |-> Options, correct_answer |-> "a"]
qZ == [options |-> Options, correct_answer |-> "z"]
Questions == {qA, qZ}

SeqsUpTo(S, n) == UNION { [1..k -> S] : k \in 1..n }
Quizzes == SeqsUpTo(Questions, MaxQ)

\* Parsed JSON values, by stage.  EmptyObject is JSON.parse('{}').
EmptyObject == [shape |-> "{}"]
SummaryPayload == [shape |-> "summary"]
KgPayload(dangling) == [shape |-> "kg", dangling |-> dangling]
TopicsPayload == [shape |-> "topics", topics |-> <<"t1">>]
QuizPayload(Q) == [shape |-> "quiz", quiz |-> Q]

FnKinds == {"generateGeneralSummary", "extractKnowledgeGraph",
            "extractTopics", "generateQuiz"}

\* The JSON values the service can answer a stage's request with.
Payloads(fn) ==
    CASE fn = "generateGeneralSummary" -> {SummaryPayload}
      [] fn = "extractKnowledgeGraph"  -> {KgPayload(FALSE), KgPayload(TRUE)}
      [] fn = "extractTopics"          -> {TopicsPayload}
      [] fn = "generateQuiz"           -> {QuizPayload(Q) : Q \in Quizzes}

\* response.text: absent or empty, not JSON, or the text of a JSON value.
NoText == [json |-> "none"]
Malformed == [json |-> "malformed"]
TextOf(v) == [json |-> "value", v |-> v]

\* One attempt's outcome at the service boundary, the service rejecting
\* with one of errs.
Outcomes(fn, errs) ==
    { [rejected |-> TRUE, err |-> e] : e \in errs }
    \cup { [rejected |-> FALSE, text |-> t] :
             t \in {NoText, Malformed} \cup { TextOf(v) : v \in Payloads(fn) } }
ServiceOutcomes(fn) == Outcomes(fn, ServiceErrors)

\* What the function passed to withRetry settles with: the service's
\* rejection, or JSON.parse(response.text || '{}').
Threw(e) == [threw |-> TRUE, err |-> e, val |-> EmptyObject]
Returned(v) == [threw |-> FALSE, err |-> NoError, val |-> v]
NoResult == [threw |-> FALSE, err |-> NoError, val |-> [shape |-> "<none>"]]

FnResult(out) ==
    IF out.rejected THEN Threw(out.err)
    ELSE CASE out.text.json = "none"      -> Returned(EmptyObject)
           [] out.text.json = "malformed" -> Threw(SyntaxError)
           [] out.text.json = "value"     -> Returned(out.text.v)

\* --------------------------------------------------------------- withRetry
\* One execution of withRetry: the loop index i, lastError, and where it
\* is suspended (in fn, or in the backoff timer).  nCalls and nDelays
\* count what it has done: the calls of fn and the backoff timers started.
withRetryStart(fn) ==
    [fn |-> fn, i |-> 0, phase |-> "fn", lastError |-> NoError,
     nCalls |-> 1, nDelays |-> 0, res |-> NoResult]

\* Mutant of wait: the delay does not grow with the attempt.
waitNoBackoff(i, rnd) == BaseMs + rnd

\* The delay after the failure of attempt i; rnd is Math.random() * 1000.
wait(i, rnd) == (2 ^ i) * BaseMs + rnd

\* Mutants of withRetrySettle: one retry fewer; a retry after the last
\* attempt.
withRetrySettleOneLess(c, r) ==
    IF ~r.threw
    THEN [c EXCEPT !.phase = "returned", !.res = r]
    ELSE IF isQuotaError(r.err) /\ c.i < maxRetries - 2
         THEN [c EXCEPT !.lastError = r.err, !.phase = "sleep",
                        !.nDelays = c.nDelays + 1]
         ELSE [c EXCEPT !.lastError = r.err, !.phase = "thrown", !.res = r]
withRetrySettleOneMore(c, r) ==
    IF ~r.threw
    THEN [c EXCEPT !.phase = "returned", !.res = r]
    ELSE IF isQuotaError(r.err) /\ c.i < maxRetries
         THEN [c EXCEPT !.lastError = r.err, !.phase = "sleep",
                        !.nDelays = c.nDelays + 1]
         ELSE [c EXCEPT !.lastError = r.err, !.phase = "thrown", !.res = r]

\* fn() settled with r.
withRetrySettle(c, r) ==
    IF ~r.threw
    THEN [c EXCEPT !.phase = "returned", !.res = r]
    ELSE IF isQuotaError(r.err) /\ c.i < maxRetries - 1
         THEN [c EXCEPT !.lastError = r.err, !.phase = "sleep",
                        !.nDelays = c.nDelays + 1]
         ELSE [c EXCEPT !.lastError = r.err, !.phase = "thrown", !.res = r]

\* The backoff timer fired: continue, i++, and the loop test.
withRetryTimer(c) ==
    IF c.i + 1 < maxRetries
    THEN [c EXCEPT !.i = c.i + 1, !.phase = "fn", !.nCalls = c.nCalls + 1]
    ELSE [c EXCEPT !.i = c.i + 1, !.phase = "thrown",
                   !.res = Threw(c.lastError)]


\* ------------------------------------------------------------ React state
VARIABLES
    appState, lectureText, topics, currentQuiz, kgData, summaryData,
    selectedTopic, isProcessingFile, uploadedFileName,   \* App (useState)
    currentIdx, selectedOption, isAnswered, score,
    isFinishing, isAdapting,                         \* QuizView (useState)
    mounted,       \* the React tree is mounted (no render has thrown)
    procs,         \* the handler executions suspended at an await
    runGen,        \* pipeline runs started so far
    rc, rcLog,     \* a withRetry execution on its own, and what was seen
                   \* of it: the service's answers and the delays waited
    report,        \* what the last step told the user and the console
    flashcardsView,   \* FlashcardsView: its flashcards prop, its useState
                      \* values and the setTimeout callbacks not yet run
    clicked        \* the clicks on its next and previous buttons so far

fileVars == <<isProcessingFile, uploadedFileName>>
appVars == <<appState, lectureText, topics, currentQuiz, kgData, summaryData,
             selectedTopic, fileVars>>
quizVars == <<currentIdx, selectedOption, isAnswered, score, isFinishing,
              isAdapting>>
cardVars == <<flashcardsView, clicked>>
vars == <<appVars, quizVars, mounted, procs, runGen, rc, rcLog, report,
          cardVars>>

\* The texts the textarea can hold: empty, blank, and a lecture.
Texts == {"", " ", "T"}
trim(t) == IF t = " " THEN "" ELSE t

\* An artifact in state: the parsed value and the run that stored it.
NullArtifact == [null |-> TRUE, v |-> EmptyObject, run |-> 0]
Artifact(v, run) == [null |-> FALSE, v |-> v, run |-> run]

\* topicResp.topics and resp.quiz: the field, or undefined (def = FALSE).
TopicsOf(v, run) ==
    IF v.shape = "topics" THEN [def |-> TRUE, list |-> v.topics, run |-> run]
    ELSE [def |-> FALSE, list |-> <<>>, run |-> run]
QuizOf(v) ==
    IF v.shape = "quiz" THEN [def |-> TRUE, qs |-> v.quiz]
    ELSE [def |-> FALSE, qs |-> <<>>]

NoTopic == [null |-> TRUE, id |-> "", run |-> 0]
Topic(id, run) == [null |-> FALSE, id |-> id, run |-> run]
NoSelection == "<null>"
\* !selectedOption: null and the empty string are both falsy.
NotSelected(s) == s = NoSelection \/ s = ""
NoFileName == "<null>"

\* What a catch block reports: console.error(err), and the text of the
\* alert when it raises one.
NoAlert == "<none>"
QuotaMessage ==
    "API Quota Exceeded. Please wait a minute and try again. Switch to a paid key for higher limits."
FailedMessage == "Analysis failed. Please try again with different content."
\* `Error reading file: ${err.message}`, for an Error made with one message.
FileMessage(e) == "Error reading file: " \o (CHOOSE t \in e.tokens : TRUE)
NoReport == [alert |-> NoAlert, error |-> NoError]
Logged(e) == [alert |-> NoAlert, error |-> e]
Alerted(msg, e) == [alert |-> msg, error |-> e]

\* Mutant of alertMessage: one message for every failure.
alertMessageAlwaysFailed(e) == FailedMessage

\* Mutant of isQuota: any error that has a message counts as a quota error.
isQuotaAnyMessage(e) == e.defined

\* runPipeline's catch: isQuota, and the message it picks.
isQuota(e) == includes(e, "429") \/ includes(e, "RESOURCE_EXHAUSTED")
alertMessage(e) == IF isQuota(e) THEN QuotaMessage ELSE FailedMessage

ReadyViews == {"SUMMARY_VIEW", "TOPICS_VIEW", "KG_VIEW", "QUIZ_VIEW"}
SidebarItems == {"SUMMARY_VIEW", "TOPICS_VIEW", "KG_VIEW", "IDLE"}

\* <QuizView> is rendered.
QuizViewMounted == appState = "QUIZ_VIEW" /\ ~selectedTopic.null
\* Mutant of SidebarShown: the sidebar is rendered in every view.
SidebarShownAlways == TRUE

\* The sidebar is rendered.
SidebarShown == appState \notin {"IDLE", "ANALYZING"}

\* FlashcardsView over the deck it is given, as first mounted: card 0,
\* front side up, no timer pending.  App renders no FlashcardsView.
FlashcardsView(flashcards) ==
    [flashcards |-> flashcards, currentIdx |-> 0, isFlipped |-> FALSE,
     timers |-> <<>>]
NoFlashcardsView == FlashcardsView(<<>>)
NoClicks == [next |-> 0, prev |-> 0]

\* The render of the current state throws (a TypeError on a missing
\* field, or d3's "node not found" in KnowledgeGraph's effect).
RenderThrows ==
    \/ SidebarShown /\ ~topics.def
    \/ /\ appState = "SUMMARY_VIEW" /\ ~summaryData.null
       /\ summaryData.v.shape # "summary"
    \/ /\ appState = "KG_VIEW" /\ ~kgData.null
       /\ (kgData.v.shape # "kg" \/ kgData.v.dangling)
    \/ /\ QuizViewMounted
       /\ \/ ~currentQuiz.def
          \/ ~isFinishing /\ currentIdx >= Len(currentQuiz.qs)

Init ==
    /\ appState = "IDLE"
    /\ lectureText = ""
    /\ topics = [def |-> TRUE, list |-> <<>>, run |-> 0]
    /\ currentQuiz = [def |-> TRUE, qs |-> <<>>]
    /\ kgData = NullArtifact
    /\ summaryData = NullArtifact
    /\ selectedTopic = NoTopic
    /\ currentIdx = 0
    /\ selectedOption = NoSelection
    /\ isAnswered = FALSE
    /\ score = 0
    /\ isFinishing = FALSE
    /\ isAdapting = FALSE
    /\ mounted = TRUE
    /\ procs = EmptyBag
    /\ runGen = 0
    /\ rc = withRetryStart("generateQuiz")
    /\ rcLog = [outs |-> <<>>, delays |-> <<>>]
    /\ isProcessingFile = FALSE
    /\ uploadedFileName = NoFileName
    /\ report = NoReport
    /\ flashcardsView = NoFlashcardsView
    /\ clicked = NoClicks

\* ------------------------------------------------------- suspended handlers
Replace(p, q) == (procs (-) SetToBag({p})) (+) SetToBag({q})
Remove(p) == procs (-) SetToBag({p})
Spawn(p) == procs (+) SetToBag({p})
InFlight == BagToSet(procs)

\* Unmounting QuizView leaves its suspended handleAdaptiveRetake with
\* state setters that no longer do anything (live = FALSE).
Stale(p) ==
    IF p.kind = "handleAdaptiveRetake" THEN [p EXCEPT !.live = FALSE] ELSE p
MarkStale(B) ==
    LET S == BagToSet(B)
        copies(q) == IF q \in S THEN B[q] ELSE 0
    IN  [q \in { Stale(p) : p \in S } |->
           IF q.kind = "handleAdaptiveRetake"
           THEN copies(q) + copies([q EXCEPT !.live = TRUE])
           ELSE copies(q)]

\* QuizView's useState values, now and as first mounted.
QuizNow ==
    [currentIdx |-> currentIdx, selectedOption |-> selectedOption,
     isAnswered |-> isAnswered, score |-> score, isFinishing |-> isFinishing,
     isAdapting |-> isAdapting]
QuizFresh ==
    [currentIdx |-> 0, selectedOption |-> NoSelection, isAnswered |-> FALSE,
     score |-> 0, isFinishing |-> FALSE, isAdapting |-> FALSE]

SetQuiz(Q) ==
    /\ currentIdx' = Q.currentIdx
    /\ selectedOption' = Q.selectedOption
    /\ isAnswered' = Q.isAnswered
    /\ score' = Q.score
    /\ isFinishing' = Q.isFinishing
    /\ isAdapting' = Q.isAdapting

\* The render after a step, once appState' and selectedTopic' are set:
\* QuizView keeps the state Q the step gave it while it stays mounted, and
\* starts fresh when it is mounted anew; P are the suspended handlers the
\* step leaves.  A render that throws unmounts the tree.
RenderReport(P, Q, said) ==
    /\ SetQuiz(IF QuizViewMounted /\ QuizViewMounted' THEN Q ELSE QuizFresh)
    /\ procs' = IF QuizViewMounted /\ ~QuizViewMounted' THEN MarkStale(P) ELSE P
    /\ mounted' = ~RenderThrows'
    /\ report' = said

\* The render after a step that reports nothing.
Render(P, Q) == RenderReport(P, Q, NoReport)

\* ------------------------------------------------------------ App handlers
\* The textarea's onChange.
SetLectureText(t) ==
    /\ mounted /\ appState = "IDLE"
    /\ lectureText' = t
    /\ UNCHANGED <<appState, topics, currentQuiz, kgData, summaryData,
                   selectedTopic, runGen, rc, rcLog, cardVars, fileVars>>
    /\ Render(procs, QuizNow)

StageFn == <<"generateGeneralSummary", "extractKnowledgeGraph",
             "extractTopics">>

\* The caller of runPipeline when it is an event handler that does not
\* outlive it (handleAnalyze).
NoCaller == [kind |-> "<event>"]

\* Mutant of returnsAtOnce: runPipeline has no guard.
returnsAtOnceNever(text) == FALSE

\* runPipeline's guard, if (!text.trim()) return.
returnsAtOnce(text) == trim(text) = ""

\* runPipeline(text), to its first await, for a text that is not blank;
\* caller is the suspended handleFileChange that awaits it, or NoCaller.
runPipeline(text, caller) ==
    LET run == [kind |-> "runPipeline", stage |-> 1, text |-> text,
                done |-> <<>>,
                run |-> runGen + 1, upload |-> caller # NoCaller,
                call |-> withRetryStart(StageFn[1])]
    IN  /\ ~returnsAtOnce(text)
        /\ appState' = "ANALYZING"
        /\ runGen' = runGen + 1
        /\ UNCHANGED <<topics, currentQuiz, kgData, summaryData,
                       selectedTopic, rc, rcLog, cardVars>>
        /\ Render(IF caller = NoCaller THEN Spawn(run)
                  ELSE Replace(caller, run),
                  QuizNow)

\* The Analyze Materials button.
handleAnalyze ==
    /\ mounted /\ appState = "IDLE"
    /\ trim(lectureText) # "" /\ ~isProcessingFile
    /\ runGen < MaxRuns
    /\ BagCardinality(procs) < MaxInFlight
    /\ UNCHANGED <<lectureText, fileVars>>
    /\ runPipeline(lectureText, NoCaller)

\* The files the user can pick, by extension and text content.
Files == { [ext |-> "txt", content |-> t] : t \in Texts }
         \cup { [ext |-> "pptx", content |-> ""], [ext |-> "exe", content |-> "T"] }
FileName(f) == "f." \o f.ext

\* extractTextFromFile(file): the text of a text file, the slides' text of
\* a PPTX ("" when it has no slides, which is refused), and a refusal of
\* any other format.
extractTextFromFile(f) ==
    CASE f.ext = "txt" -> [threw |-> FALSE, text |-> f.content]
      [] f.ext = "pptx" ->
            IF trim(f.content) = ""
            THEN [threw |-> TRUE, text |-> "",
                  err |-> Err({"No text content found in PPTX file."})]
            ELSE [threw |-> FALSE, text |-> f.content]
      [] OTHER -> [threw |-> TRUE, text |-> "",
                   err |-> Err({"Unsupported file format"})]

\* The file input's onChange, to the await of extractTextFromFile.
handleFileChange(f) ==
    /\ mounted /\ appState = "IDLE" /\ ~isProcessingFile
    /\ runGen < MaxRuns
    /\ BagCardinality(procs) < MaxInFlight
    /\ isProcessingFile' = TRUE
    /\ uploadedFileName' = FileName(f)
    /\ UNCHANGED <<appState, lectureText, topics, currentQuiz, kgData,
                   summaryData, selectedTopic, runGen, rc, rcLog, cardVars>>
    /\ Render(Spawn([kind |-> "handleFileChange", file |-> f]), QuizNow)

\* Mutant of handleFileChangeAwait: the catch block keeps the file's name.
handleFileChangeAwaitKeepsName ==
    \E p \in InFlight :
        /\ mounted /\ p.kind = "handleFileChange"
        /\ LET r == extractTextFromFile(p.file)
           IN  IF r.threw
               THEN /\ isProcessingFile' = FALSE
                    /\ UNCHANGED <<appState, lectureText, topics, currentQuiz,
                                   kgData, summaryData, selectedTopic, runGen,
                                   rc, rcLog, cardVars, uploadedFileName>>
                    /\ RenderReport(Remove(p), QuizNow,
                                    Alerted(FileMessage(r.err), r.err))
               ELSE IF returnsAtOnce(r.text)
               THEN /\ lectureText' = r.text
                    /\ isProcessingFile' = FALSE
                    /\ UNCHANGED <<appState, topics, currentQuiz, kgData,
                                   summaryData, selectedTopic, runGen, rc,
                                   rcLog, cardVars, uploadedFileName>>
                    /\ Render(Remove(p), QuizNow)
               ELSE /\ lectureText' = r.text
                    /\ UNCHANGED fileVars
                    /\ runPipeline(r.text, p)

\* handleFileChange after the await of extractTextFromFile: the catch and
\* finally blocks when it threw; else setLectureText and runPipeline(text),
\* which returns at once on a blank text (then the finally block runs) and
\* otherwise keeps handleFileChange suspended until the run has ended.
handleFileChangeAwait ==
    \E p \in InFlight :
        /\ mounted /\ p.kind = "handleFileChange"
        /\ LET r == extractTextFromFile(p.file)
           IN  IF r.threw
               THEN /\ uploadedFileName' = NoFileName
                    /\ isProcessingFile' = FALSE
                    /\ UNCHANGED <<appState, lectureText, topics, currentQuiz,
                                   kgData, summaryData, selectedTopic, runGen,
                                   rc, rcLog, cardVars>>
                    /\ RenderReport(Remove(p), QuizNow,
                                    Alerted(FileMessage(r.err), r.err))
               ELSE IF returnsAtOnce(r.text)
               THEN /\ lectureText' = r.text
                    /\ isProcessingFile' = FALSE
                    /\ UNCHANGED <<appState, topics, currentQuiz, kgData,
                                   summaryData, selectedTopic, runGen, rc,
                                   rcLog, cardVars, uploadedFileName>>
                    /\ Render(Remove(p), QuizNow)
               ELSE /\ lectureText' = r.text
                    /\ UNCHANGED fileVars
                    /\ runPipeline(r.text, p)

\* Mutant of runPipelineResume: the summary page is shown as soon as the
\* knowledge graph is stored, before the Topics stage.
runPipelineResumeEarlyReady(p, r) ==
    /\ UNCHANGED <<lectureText, currentQuiz, selectedTopic, runGen, rc, rcLog, cardVars,
                   uploadedFileName>>
    /\ isProcessingFile' =
          IF p.upload /\ (r.threw \/ p.stage = 3)
          THEN FALSE ELSE isProcessingFile
    /\ IF r.threw
       THEN /\ appState' = "IDLE"
            /\ UNCHANGED <<topics, kgData, summaryData>>
            /\ RenderReport(Remove(p), QuizNow,
                            Alerted(alertMessage(r.err), r.err))
       ELSE CASE p.stage = 1 ->
                 /\ summaryData' = Artifact(r.val, p.run)
                 /\ UNCHANGED <<appState, topics, kgData>>
                 /\ Render(Replace(p, [p EXCEPT !.stage = 2,
                              !.done = Append(p.done, p.call.nCalls),
                              !.call = withRetryStart(StageFn[2])]), QuizNow)
              [] p.stage = 2 ->
                 /\ kgData' = Artifact(r.val, p.run)
                 /\ appState' = "SUMMARY_VIEW"
                 /\ UNCHANGED <<topics, summaryData>>
                 /\ Render(Replace(p, [p EXCEPT !.stage = 3,
                              !.done = Append(p.done, p.call.nCalls),
                              !.call = withRetryStart(StageFn[3])]), QuizNow)
              [] p.stage = 3 ->
                 /\ topics' = TopicsOf(r.val, p.run)
                 /\ UNCHANGED <<appState, kgData, summaryData>>
                 /\ Render(Remove(p), QuizNow)

\* Mutant of runPipelineResume: a failed Summary stage is skipped and the
\* run goes on with the knowledge graph.
runPipelineResumeSkipsFailure(p, r) ==
    /\ UNCHANGED <<lectureText, currentQuiz, selectedTopic, runGen, rc, rcLog, cardVars,
                   uploadedFileName>>
    /\ isProcessingFile' =
          IF p.upload /\ (IF r.threw THEN p.stage # 1 ELSE p.stage = 3)
          THEN FALSE ELSE isProcessingFile
    /\ IF r.threw /\ p.stage = 1
       THEN /\ UNCHANGED <<appState, topics, kgData, summaryData>>
            /\ Render(Replace(p, [p EXCEPT !.stage = 2,
                              !.done = Append(p.done, p.call.nCalls),
                         !.call = withRetryStart(StageFn[2])]), QuizNow)
       ELSE IF r.threw
       THEN /\ appState' = "IDLE"
            /\ UNCHANGED <<topics, kgData, summaryData>>
            /\ RenderReport(Remove(p), QuizNow,
                            Alerted(alertMessage(r.err), r.err))
       ELSE CASE p.stage = 1 ->
                 /\ summaryData' = Artifact(r.val, p.run)
                 /\ UNCHANGED <<appState, topics, kgData>>
                 /\ Render(Replace(p, [p EXCEPT !.stage = 2,
                              !.done = Append(p.done, p.call.nCalls),
                              !.call = withRetryStart(StageFn[2])]), QuizNow)
              [] p.stage = 2 ->
                 /\ kgData' = Artifact(r.val, p.run)
                 /\ UNCHANGED <<appState, topics, summaryData>>
                 /\ Render(Replace(p, [p EXCEPT !.stage = 3,
                              !.done = Append(p.done, p.call.nCalls),
                              !.call = withRetryStart(StageFn[3])]), QuizNow)
              [] p.stage = 3 ->
                 /\ topics' = TopicsOf(r.val, p.run)
                 /\ appState' = "SUMMARY_VIEW"
                 /\ UNCHANGED <<kgData, summaryData>>
                 /\ Render(Remove(p), QuizNow)

\* Mutant of runPipelineResume: when KnowledgeGraph succeeds after a retry
\* the run starts over from Summary.
runPipelineResumeRestarts(p, r) ==
    /\ UNCHANGED <<lectureText, currentQuiz, selectedTopic, runGen, rc, rcLog, cardVars,
                   uploadedFileName>>
    /\ isProcessingFile' =
          IF p.upload /\ (r.threw \/ p.stage = 3)
          THEN FALSE ELSE isProcessingFile
    /\ IF r.threw
       THEN /\ appState' = "IDLE"
            /\ UNCHANGED <<topics, kgData, summaryData>>
            /\ RenderReport(Remove(p), QuizNow,
                            Alerted(alertMessage(r.err), r.err))
       ELSE CASE p.stage = 1 ->
                 /\ summaryData' = Artifact(r.val, p.run)
                 /\ UNCHANGED <<appState, topics, kgData>>
                 /\ Render(Replace(p, [p EXCEPT !.stage = 2,
                              !.done = <<p.call.nCalls>>,
                              !.call = withRetryStart(StageFn[2])]), QuizNow)
              [] p.stage = 2 ->
                 /\ kgData' = Artifact(r.val, p.run)
                 /\ UNCHANGED <<appState, topics, summaryData>>
                 /\ Render(Replace(p,
                       IF p.call.nCalls > 1
                       THEN [p EXCEPT !.stage = 1,
                              !.call = withRetryStart(StageFn[1])]
                       ELSE [p EXCEPT !.stage = 3,
                              !.done = Append(p.done, p.call.nCalls),
                              !.call = withRetryStart(StageFn[3])]), QuizNow)
              [] p.stage = 3 ->
                 /\ topics' = TopicsOf(r.val, p.run)
                 /\ appState' = "SUMMARY_VIEW"
                 /\ UNCHANGED <<kgData, summaryData>>
                 /\ Render(Remove(p), QuizNow)

\* Mutant of runPipelineResume: a stage that failed is called again.
runPipelineResumeRetriesStage(p, r) ==
    /\ UNCHANGED <<lectureText, currentQuiz, selectedTopic, runGen, rc, rcLog, cardVars,
                   uploadedFileName>>
    /\ isProcessingFile' =
          IF p.upload /\ ~r.threw /\ p.stage = 3
          THEN FALSE ELSE isProcessingFile
    /\ IF r.threw
       THEN /\ UNCHANGED <<appState, topics, kgData, summaryData>>
            /\ RenderReport(Replace(p, [p EXCEPT
                              !.call = withRetryStart(StageFn[p.stage])]),
                            QuizNow, Logged(r.err))
       ELSE CASE p.stage = 1 ->
                 /\ summaryData' = Artifact(r.val, p.run)
                 /\ UNCHANGED <<appState, topics, kgData>>
                 /\ Render(Replace(p, [p EXCEPT !.stage = 2,
                              !.done = Append(p.done, p.call.nCalls),
                              !.call = withRetryStart(StageFn[2])]), QuizNow)
              [] p.stage = 2 ->
                 /\ kgData' = Artifact(r.val, p.run)
                 /\ UNCHANGED <<appState, topics, summaryData>>
                 /\ Render(Replace(p, [p EXCEPT !.stage = 3,
                              !.done = Append(p.done, p.call.nCalls),
                              !.call = withRetryStart(StageFn[3])]), QuizNow)
              [] p.stage = 3 ->
                 /\ topics' = TopicsOf(r.val, p.run)
                 /\ appState' = "SUMMARY_VIEW"
                 /\ UNCHANGED <<kgData, summaryData>>
                 /\ Render(Remove(p), QuizNow)

\* runPipeline after the await of stage p.stage, settled with r.
runPipelineResume(p, r) ==
    /\ UNCHANGED <<lectureText, currentQuiz, selectedTopic, runGen, rc, rcLog, cardVars,
                   uploadedFileName>>
    /\ isProcessingFile' =
          IF p.upload /\ (r.threw \/ p.stage = 3)
          THEN FALSE ELSE isProcessingFile
    /\ IF r.threw
       THEN /\ appState' = "IDLE"
            /\ UNCHANGED <<topics, kgData, summaryData>>
            /\ RenderReport(Remove(p), QuizNow,
                            Alerted(alertMessage(r.err), r.err))
       ELSE CASE p.stage = 1 ->
                 /\ summaryData' = Artifact(r.val, p.run)
                 /\ UNCHANGED <<appState, topics, kgData>>
                 /\ Render(Replace(p, [p EXCEPT !.stage = 2,
                              !.done = Append(p.done, p.call.nCalls),
                              !.call = withRetryStart(StageFn[2])]), QuizNow)
              [] p.stage = 2 ->
                 /\ kgData' = Artifact(r.val, p.run)
                 /\ UNCHANGED <<appState, topics, summaryData>>
                 /\ Render(Replace(p, [p EXCEPT !.stage = 3,
                              !.done = Append(p.done, p.call.nCalls),
                              !.call = withRetryStart(StageFn[3])]), QuizNow)
              [] p.stage = 3 ->
                 /\ topics' = TopicsOf(r.val, p.run)
                 /\ appState' = "SUMMARY_VIEW"
                 /\ UNCHANGED <<kgData, summaryData>>
                 /\ Render(Remove(p), QuizNow)

\* ------------------------------------------------------------ generateQuiz
\* generateQuiz's optional adaptiveContext, and the directive it puts in
\* front of the prompt.
NoContext == [given |-> FALSE, score |-> 0, total |-> 0]
Context(s, t) == [given |-> TRUE, score |-> s, total |-> t]
NoDirective == ""
EasierDirective == "Regenerate 5 easier questions focusing on fundamentals."
AdvancedDirective ==
    "Generate 5 advanced-level application-based questions (scenario-based)."

\* Mutant of adaptivePrompt: total / 2 is an integer division.
adaptivePromptIntDiv(ctx) ==
    IF ~ctx.given THEN NoDirective
    ELSE IF ctx.score < ctx.total \div 2 THEN EasierDirective
    ELSE IF ctx.score = ctx.total THEN AdvancedDirective
    ELSE NoDirective

\* score < total / 2 over the reals is 2 * score < total.
adaptivePrompt(ctx) ==
    IF ~ctx.given THEN NoDirective
    ELSE IF 2 * ctx.score < ctx.total THEN EasierDirective
    ELSE IF ctx.score = ctx.total THEN AdvancedDirective
    ELSE NoDirective

\* generateQuiz(topic, adaptiveContext), entered: the prompt's directive
\* and the withRetry call that sends it.
generateQuiz(ctx) ==
    [ctx |-> ctx, directive |-> adaptivePrompt(ctx),
     call |-> withRetryStart("generateQuiz")]

\* handleStartQuiz(topic), to its await.
handleStartQuiz(t) ==
    /\ mounted /\ appState = "TOPICS_VIEW"
    /\ BagCardinality(procs) < MaxInFlight
    /\ appState' = "ANALYZING"
    /\ selectedTopic' = t
    /\ UNCHANGED <<lectureText, topics, currentQuiz, kgData, summaryData,
                   runGen, rc, rcLog, cardVars, fileVars>>
    /\ Render(Spawn([kind |-> "handleStartQuiz"] @@ generateQuiz(NoContext)),
              QuizNow)

\* Mutant of handleStartQuizResume: the catch block drops the quiz in state.
handleStartQuizResumeClearsQuiz(p, r) ==
    /\ UNCHANGED <<lectureText, topics, kgData, summaryData, selectedTopic,
                   runGen, rc, rcLog, cardVars, fileVars>>
    /\ IF r.threw
       THEN /\ appState' = "TOPICS_VIEW"
            /\ currentQuiz' = [def |-> TRUE, qs |-> <<>>]
       ELSE /\ currentQuiz' = QuizOf(r.val)
            /\ appState' = "QUIZ_VIEW"
    /\ RenderReport(Remove(p), QuizNow,
                    IF r.threw THEN Logged(r.err) ELSE NoReport)

handleStartQuizResume(p, r) ==
    /\ UNCHANGED <<lectureText, topics, kgData, summaryData, selectedTopic,
                   runGen, rc, rcLog, cardVars, fileVars>>
    /\ IF r.threw
       THEN /\ appState' = "TOPICS_VIEW"
            /\ UNCHANGED currentQuiz
       ELSE /\ currentQuiz' = QuizOf(r.val)
            /\ appState' = "QUIZ_VIEW"
    /\ RenderReport(Remove(p), QuizNow,
                    IF r.threw THEN Logged(r.err) ELSE NoReport)

\* A sidebar button.
Navigate(item) ==
    /\ mounted /\ SidebarShown
    /\ lectureText' = IF item = "IDLE" THEN "" ELSE lectureText
    /\ uploadedFileName' = IF item = "IDLE" THEN NoFileName
                           ELSE uploadedFileName
    /\ appState' = item
    /\ UNCHANGED <<topics, currentQuiz, kgData, summaryData, selectedTopic,
                   runGen, rc, rcLog, cardVars, isProcessingFile>>
    /\ Render(procs, QuizNow)

\* "Explore Topic Breakdown" on the summary page.
ExploreTopics ==
    /\ mounted /\ appState = "SUMMARY_VIEW" /\ ~summaryData.null
    /\ appState' = "TOPICS_VIEW"
    /\ UNCHANGED <<lectureText, topics, currentQuiz, kgData, summaryData,
                   selectedTopic, runGen, rc, rcLog, cardVars, fileVars>>
    /\ Render(procs, QuizNow)

\* ------------------------------------------------------- QuizView handlers
questions == currentQuiz.qs
currentQuestion == questions[currentIdx + 1]

\* The question page is rendered (not the "Quiz Complete!" page).
QuestionShown == mounted /\ QuizViewMounted /\ ~isFinishing

QuizStep(Q) ==
    /\ UNCHANGED <<appVars, runGen, rc, rcLog, cardVars>>
    /\ Render(procs, Q)

\* Mutant of handleOptionClick: choosing the correct option scores at once.
handleOptionClickScores(option) ==
    /\ QuestionShown
    /\ ~isAnswered
    /\ QuizStep([QuizNow EXCEPT
          !.selectedOption = option,
          !.score = IF option = currentQuestion.correct_answer
                    THEN score + 1 ELSE score])

\* Mutant of handleOptionClick: the isAnswered guard is missing.
handleOptionClickAnytime(option) ==
    /\ QuestionShown
    /\ QuizStep([QuizNow EXCEPT !.selectedOption = option])

handleOptionClick(option) ==
    /\ QuestionShown
    /\ ~isAnswered
    /\ QuizStep([QuizNow EXCEPT !.selectedOption = option])

\* Mutant of handleSubmit: every submitted answer scores.
handleSubmitAlwaysScores ==
    /\ QuestionShown
    /\ ~isAnswered
    /\ ~NotSelected(selectedOption)
    /\ QuizStep([QuizNow EXCEPT !.isAnswered = TRUE, !.score = score + 1])

handleSubmit ==
    /\ QuestionShown
    /\ ~isAnswered
    /\ ~NotSelected(selectedOption)
    /\ QuizStep([QuizNow EXCEPT
          !.isAnswered = TRUE,
          !.score = IF selectedOption = currentQuestion.correct_answer
                    THEN score + 1 ELSE score])

\* Mutant of handleNext: the bound of the last question is off by one.
handleNextOffByOne ==
    /\ QuestionShown
    /\ isAnswered
    /\ IF currentIdx < Len(questions)
       THEN QuizStep([QuizNow EXCEPT !.currentIdx = currentIdx + 1,
                                     !.selectedOption = NoSelection,
                                     !.isAnswered = FALSE])
       ELSE QuizStep([QuizNow EXCEPT !.isFinishing = TRUE])

\* Mutant of handleNext: the button is there before the answer is checked.
handleNextAnytime ==
    /\ QuestionShown
    /\ IF currentIdx < Len(questions) - 1
       THEN QuizStep([QuizNow EXCEPT !.currentIdx = currentIdx + 1,
                                     !.selectedOption = NoSelection,
                                     !.isAnswered = FALSE])
       ELSE QuizStep([QuizNow EXCEPT !.isFinishing = TRUE])

handleNext ==
    /\ QuestionShown
    /\ isAnswered
    /\ IF currentIdx < Len(questions) - 1
       THEN QuizStep([QuizNow EXCEPT !.currentIdx = currentIdx + 1,
                                     !.selectedOption = NoSelection,
                                     !.isAnswered = FALSE])
       ELSE QuizStep([QuizNow EXCEPT !.isFinishing = TRUE])

\* "Try Adaptive Mode", to its await.
handleAdaptiveRetake ==
    /\ mounted /\ QuizViewMounted /\ isFinishing
    /\ ~isAdapting
    /\ BagCardinality(procs) < MaxInFlight
    /\ UNCHANGED <<appVars, runGen, rc, rcLog, cardVars>>
    /\ Render(Spawn([kind |-> "handleAdaptiveRetake", live |-> TRUE]
                     @@ generateQuiz(Context(score, Len(questions)))),
              [QuizNow EXCEPT !.isAdapting = TRUE])

\* handleAdaptiveRetake after its await: onRetake is App's setCurrentQuiz;
\* the setters of an unmounted QuizView do nothing.
handleAdaptiveRetakeResume(p, r) ==
    /\ UNCHANGED <<appState, lectureText, topics, kgData, summaryData,
                   selectedTopic, runGen, rc, rcLog, cardVars, fileVars>>
    /\ IF r.threw
       THEN /\ UNCHANGED currentQuiz
            /\ RenderReport(Remove(p),
                            IF p.live
                            THEN [QuizNow EXCEPT !.isAdapting = FALSE]
                            ELSE QuizNow,
                            Logged(r.err))
       ELSE /\ currentQuiz' = QuizOf(r.val)
            /\ Render(Remove(p), IF p.live THEN QuizFresh ELSE QuizNow)

\* "Back to Topics" on the "Quiz Complete!" page.
onFinish ==
    /\ mounted /\ QuizViewMounted /\ isFinishing
    /\ appState' = "TOPICS_VIEW"
    /\ UNCHANGED <<lectureText, topics, currentQuiz, kgData, summaryData,
                   selectedTopic, runGen, rc, rcLog, cardVars, fileVars>>
    /\ Render(procs, QuizNow)

\* ------------------------------------------------- awaits of withRetry
\* withRetry moved to c in the suspended handler p: it stays suspended
\* while withRetry is, and resumes when withRetry returns or throws.
Resume(p, c) ==
    IF c.phase \in {"fn", "sleep"}
    THEN /\ procs' = Replace(p, [p EXCEPT !.call = c])
         /\ report' = NoReport
         /\ UNCHANGED <<appVars, quizVars, mounted, runGen, rc, rcLog, cardVars>>
    ELSE CASE p.kind = "runPipeline" -> runPipelineResume(p, c.res)
           [] p.kind = "handleStartQuiz" -> handleStartQuizResume(p, c.res)
           [] p.kind = "handleAdaptiveRetake" ->
                 handleAdaptiveRetakeResume(p, c.res)

\* The service answers the call that p's withRetry awaits.
AttemptSettles(p) ==
    /\ mounted
    /\ p.call.phase = "fn"
    /\ \E out \in ServiceOutcomes(p.call.fn) :
          Resume(p, withRetrySettle(p.call, FnResult(out)))

runPipelineAwait ==
    \E p \in InFlight : p.kind = "runPipeline" /\ AttemptSettles(p)

handleStartQuizAwait ==
    \E p \in InFlight : p.kind = "handleStartQuiz" /\ AttemptSettles(p)

handleAdaptiveRetakeAwait ==
    \E p \in InFlight : p.kind = "handleAdaptiveRetake" /\ AttemptSettles(p)

\* withRetry's setTimeout fires.
BackoffTimer ==
    \E p \in InFlight :
        /\ mounted /\ p.kind # "handleFileChange"
        /\ p.call.phase = "sleep"
        /\ Resume(p, withRetryTimer(p.call))

Next ==
    \/ \E t \in Texts : SetLectureText(t)
    \/ handleAnalyze
    \/ \E f \in Files : handleFileChange(f)
    \/ handleFileChangeAwait
    \/ runPipelineAwait
    \/ \E item \in SidebarItems : Navigate(item)
    \/ ExploreTopics
    \/ \E k \in DOMAIN topics.list : handleStartQuiz(Topic(topics.list[k], topics.run))
    \/ handleStartQuizAwait
    \/ \E o \in {Options[k] : k \in DOMAIN Options} : handleOptionClick(o)
    \/ handleSubmit
    \/ handleNext
    \/ handleAdaptiveRetake
    \/ handleAdaptiveRetakeAwait
    \/ onFinish
    \/ BackoffTimer

Spec == Init /\ [][Next]_vars

\* ------------------------------------------- the pipeline, without quizzes
\* The input page, the pipeline runs and the sidebar; every service call is
\* answered and every backoff timer fires.
NextPipeline ==
    \/ \E t \in Texts : SetLectureText(t)
    \/ handleAnalyze
    \/ \E f \in Files : handleFileChange(f)
    \/ handleFileChangeAwait
    \/ runPipelineAwait
    \/ \E item \in SidebarItems : Navigate(item)
    \/ BackoffTimer

SpecPipeline ==
    /\ Init /\ [][NextPipeline]_vars
    /\ WF_vars(runPipelineAwait)
    /\ WF_vars(BackoffTimer)

\* ------------------------------------------------ withRetry, on its own
InitRetry ==
    /\ Init!1 /\ Init!2 /\ Init!3 /\ Init!4 /\ Init!5 /\ Init!6 /\ Init!7
    /\ Init!8 /\ Init!9 /\ Init!10 /\ Init!11 /\ Init!12 /\ Init!13
    /\ Init!14 /\ Init!15 /\ Init!16 /\ Init!19 /\ Init!20
    /\ Init!21 /\ Init!22 /\ Init!23
    /\ rc \in { withRetryStart(fn) : fn \in FnKinds }
    /\ rcLog = [outs |-> <<>>, delays |-> <<>>]

RetrySettle ==
    /\ rc.phase = "fn"
    /\ \E out \in Outcomes(rc.fn, ServiceErrors \cup MarkerErrors),
          rnd \in Jitters :
          /\ rc' = withRetrySettle(rc, FnResult(out))
          /\ rcLog' = [outs |-> Append(rcLog.outs, out),
                       delays |-> IF rc'.phase = "sleep"
                                  THEN Append(rcLog.delays, wait(rc.i, rnd))
                                  ELSE rcLog.delays]
    /\ UNCHANGED <<appVars, quizVars, mounted, procs, runGen, report,
                   cardVars>>

RetryTimer ==
    /\ rc.phase = "sleep"
    /\ rc' = withRetryTimer(rc)
    /\ UNCHANGED <<appVars, quizVars, mounted, procs, runGen, rcLog, cardVars, report>>

NextRetry == RetrySettle \/ RetryTimer

SpecRetry == InitRetry /\ [][NextRetry]_vars

\* ------------------------------------- handleAdaptiveRetake, on its own
\* A completed session of n questions with s of them answered correctly:
\* the questions answered with their correct_answer come first.
MaxTotal == 5
CompletedQuiz(s, n) == [k \in 1..n |-> IF k <= s THEN qA ELSE qZ]

InitDirective ==
    /\ appState = "QUIZ_VIEW"
    /\ lectureText = "T"
    /\ topics = TopicsOf(TopicsPayload, 1)
    /\ kgData = Artifact(KgPayload(FALSE), 1)
    /\ summaryData = Artifact(SummaryPayload, 1)
    /\ selectedTopic = Topic("t1", 1)
    /\ \E n \in 1..MaxTotal : \E s \in 0..n :
          /\ currentQuiz = [def |-> TRUE, qs |-> CompletedQuiz(s, n)]
          /\ currentIdx = n - 1
          /\ score = s
    /\ selectedOption = "a"
    /\ isAnswered = TRUE
    /\ isFinishing = TRUE
    /\ isAdapting = FALSE
    /\ mounted = TRUE
    /\ procs = EmptyBag
    /\ runGen = 1
    /\ Init!17 /\ Init!18 /\ Init!19 /\ Init!20 /\ Init!21
    /\ Init!22 /\ Init!23

NextDirective ==
    \/ handleAdaptiveRetake
    \/ handleAdaptiveRetakeAwait
    \/ BackoffTimer

SpecDirective == InitDirective /\ [][NextDirective]_vars

\* ------------------------------------------------ FlashcardsView, on its own
\* The decks FlashcardsView is given (a card is its front and back), and
\* the clicks on its arrow buttons that are followed.
MaxCards == 3
MaxClicks == 4
Decks == { [k \in 1..n |-> [front |-> k, back |-> k]] : n \in 1..MaxCards }

\* JavaScript's %: the remainder has the sign of the dividend.
rem(a, b) == IF a >= 0 THEN a % b ELSE 0 - ((0 - a) % b)

\* Mutant of prevUpdater: the deck's length is not added before the %.
prevUpdaterNoWrap(prev, len) == rem(prev - 1, len)

\* The updaters handleNext and handlePrev hand to setCurrentIdx.
nextUpdater(prev, len) == rem(prev + 1, len)
prevUpdater(prev, len) == rem(prev - 1 + len, len)

InitFlashcards ==
    /\ Init!1 /\ Init!2 /\ Init!3 /\ Init!4 /\ Init!5 /\ Init!6 /\ Init!7
    /\ Init!8 /\ Init!9 /\ Init!10 /\ Init!11 /\ Init!12 /\ Init!13
    /\ Init!14 /\ Init!15 /\ Init!16 /\ Init!17 /\ Init!18 /\ Init!19
    /\ Init!20 /\ Init!21
    /\ flashcardsView \in { FlashcardsView(d) : d \in Decks }
    /\ clicked = NoClicks

\* A step of FlashcardsView that takes it to v.
FlashcardsStep(v) ==
    /\ flashcardsView' = v
    /\ UNCHANGED <<appVars, quizVars, mounted, procs, runGen, rc, rcLog,
                   report>>

\* The right arrow: setIsFlipped(false) and a timer for the index.
flashcardsHandleNext ==
    /\ clicked.next + clicked.prev < MaxClicks
    /\ clicked' = [clicked EXCEPT !.next = @ + 1]
    /\ FlashcardsStep([flashcardsView EXCEPT
          !.isFlipped = FALSE, !.timers = Append(@, "handleNext")])

\* The left arrow.
flashcardsHandlePrev ==
    /\ clicked.next + clicked.prev < MaxClicks
    /\ clicked' = [clicked EXCEPT !.prev = @ + 1]
    /\ FlashcardsStep([flashcardsView EXCEPT
          !.isFlipped = FALSE, !.timers = Append(@, "handlePrev")])

\* The oldest setTimeout callback runs (all wait the same 150 ms, so they
\* run in the order of the clicks): setCurrentIdx with its updater, which
\* React applies to the index of that moment.
flashcardsTimeout ==
    /\ flashcardsView.timers # <<>>
    /\ UNCHANGED clicked
    /\ LET v == flashcardsView
           len == Len(v.flashcards)
       IN  FlashcardsStep([v EXCEPT
              !.timers = Tail(@),
              !.currentIdx = IF Head(v.timers) = "handleNext"
                             THEN nextUpdater(@, len)
                             ELSE prevUpdater(@, len)])

\* A click on the card turns it over.
flashcardsFlip ==
    /\ UNCHANGED clicked
    /\ FlashcardsStep([flashcardsView EXCEPT !.isFlipped = ~@])

NextFlashcards ==
    \/ flashcardsHandleNext
    \/ flashcardsHandlePrev
    \/ flashcardsTimeout
    \/ flashcardsFlip

SpecFlashcards == InitFlashcards /\ [][NextFlashcards]_vars

\* ------------------------------------------------- claims about withRetry
\* What the service did on the attempts of rc, as the specification
\* classes it: a rate-limit failure, another failure (a rejection without
\* a quota marker, or a text that does not parse), or a JSON value.
Settled == Len(rcLog.outs)
Failed(out) == out.rejected \/ out.text.json = "malformed"
ErrorOf(out) == IF out.rejected THEN out.err ELSE SyntaxError
RateLimited(out) == out.rejected /\ Classify(out.err) = "RateLimited"
Answered(out) == ~out.rejected /\ out.text.json = "value"

\* C6: a call that is rate-limited on attempts 1 and 2 and answered on
\* attempt 3 goes on after each of the two failures (it is waiting or
\* calling again, never failed), and returns the third attempt's value
\* after exactly 3 service calls and exactly 2 delays, each >= 1000 ms.
C6_RetryTwiceThenSuccess ==
    /\ \A n \in 1..2 :
          (Settled = n /\ \A k \in 1..n : RateLimited(rcLog.outs[k])) =>
             /\ rc.phase \in {"sleep", "fn"}
             /\ Len(rcLog.delays) = n /\ rc.nDelays = n
             /\ rc.nCalls = IF rc.phase = "fn" THEN n + 1 ELSE n
    /\ (/\ Settled = 3
        /\ RateLimited(rcLog.outs[1]) /\ RateLimited(rcLog.outs[2])
        /\ Answered(rcLog.outs[3])) =>
          /\ rc.phase = "returned"
          /\ rc.res = Returned(rcLog.outs[3].text.v)
          /\ rc.nCalls = 3
          /\ Len(rcLog.delays) = 2 /\ rc.nDelays = 2
          /\ \A k \in 1..2 : rcLog.delays[k] >= BaseMs

C6_Witness ==
    /\ Settled = 3 /\ rc.phase = "returned"
    /\ RateLimited(rcLog.outs[1]) /\ RateLimited(rcLog.outs[2])
    /\ Answered(rcLog.outs[3])

\* C7: when all 3 attempts are rate-limited, withRetry has failed with the
\* third attempt's error itself (still RateLimited), after 3 service calls
\* and 2 delays; no execution makes a 4th call or waits a 3rd delay.
C7_RetryExhaustion ==
    /\ Settled <= maxRetries /\ rc.nCalls <= maxRetries
    /\ Len(rcLog.delays) <= maxRetries - 1 /\ rc.nDelays <= maxRetries - 1
    /\ (Settled = 3 /\ \A k \in 1..3 : RateLimited(rcLog.outs[k])) =>
          /\ rc.phase = "thrown"
          /\ rc.res = Threw(rcLog.outs[3].err)
          /\ Classify(rc.res.err) = "RateLimited"
          /\ rc.nCalls = 3
          /\ Len(rcLog.delays) = 2

C7_Witness ==
    /\ Settled = 3 /\ rc.phase = "thrown"
    /\ \A k \in 1..3 : RateLimited(rcLog.outs[k])

\* C8: a failure that is not RateLimited (Generic, or a text that does not
\* parse), on whichever attempt, fails the call at once with that error:
\* no delay follows it and no further call is made; so every failure that
\* was followed by another attempt was RateLimited.
C8_FailFast ==
    /\ \A k \in 1..(Settled - 1) : RateLimited(rcLog.outs[k])
    /\ (/\ Settled >= 1
        /\ Failed(rcLog.outs[Settled])
        /\ ~RateLimited(rcLog.outs[Settled])) =>
          /\ rc.phase = "thrown"
          /\ rc.res = Threw(ErrorOf(rcLog.outs[Settled]))
          /\ Classify(rc.res.err) \in {"Generic", "SchemaViolation"}
          /\ Len(rcLog.delays) = Settled - 1
          /\ rc.nCalls = Settled

C8_Witness ==
    /\ Settled = 2 /\ rc.phase = "thrown"
    /\ ~rcLog.outs[2].rejected /\ rcLog.outs[2].text.json = "malformed"
    /\ rc.res = Threw(SyntaxError)

\* ------------------------------------------------------ claims about App
\* The step resumes the suspended handler p and ends it.
Ends(p) == p \in InFlight /\ procs' = Remove(p)
StaleRetake(p) == p.kind = "handleAdaptiveRetake" /\ ~p.live
RunInProgress == \E p \in InFlight : p.kind = "runPipeline"
QuizStarting == \E p \in InFlight : p.kind = "handleStartQuiz"

\* C1: when a handleAdaptiveRetake whose QuizView is gone completes while
\* a newer quiz session is shown, or while a quiz or a pipeline run is
\* being started, currentQuiz and the session's index, selection, answered
\* flag and score are what they were before it completed.
C1_StaleRetakeDiscarded ==
    [][\A p \in InFlight :
          (/\ StaleRetake(p) /\ Ends(p)
           /\ QuizViewMounted \/ RunInProgress \/ QuizStarting)
          => UNCHANGED <<currentQuiz, currentIdx, selectedOption,
                         isAnswered, score>>]_vars

\* C2: in every committed state with appState a Ready view (a render that
\* throws commits nothing), summaryData, kgData and topics are all present
\* and were stored by one and the same pipeline run; while a run is in
\* progress appState is ANALYZING.
C2_NoPartialReady ==
    /\ (mounted /\ appState \in ReadyViews) =>
          /\ ~summaryData.null /\ ~kgData.null /\ topics.def
          /\ summaryData.run >= 1
          /\ kgData.run = summaryData.run /\ topics.run = summaryData.run
    /\ RunInProgress => appState = "ANALYZING"

C2_Witness ==
    /\ mounted /\ appState = "TOPICS_VIEW" /\ runGen = 2
    /\ summaryData.run = 2 /\ ~RunInProgress

\* C3: when a pipeline run ends in failure (appState back to IDLE), the
\* state holds no artifact that this run stored.
C3_FailedRunDiscarded ==
    [][\A p \in InFlight :
          (p.kind = "runPipeline" /\ Ends(p) /\ appState' = "IDLE")
          => summaryData'.run # p.run /\ kgData'.run # p.run]_vars

\* C4: in every state of a quiz session the user can see, 0 <= score <= N,
\* N the number of questions of the quiz shown.
C4_ScoreWithinBounds ==
    (mounted /\ QuizViewMounted) =>
        0 <= score /\ score <= Len(questions)

\* A submit: the shown question goes from unanswered to answered.
SubmitStep ==
    /\ QuizViewMounted /\ QuizViewMounted'
    /\ ~isAnswered /\ isAnswered'
\* A successful retake of the shown session: its handler ends and the
\* "Quiz Complete!" page gives way to the first question.
RetakeResetStep ==
    /\ \E p \in InFlight :
          p.kind = "handleAdaptiveRetake" /\ p.live /\ Ends(p)
    /\ isFinishing /\ ~isFinishing'

\* C5: within a quiz session score changes only by a submit, which is
\* taken on an unanswered question with a selection and adds 1 when the
\* selection is the question's correct_answer and 0 otherwise, and by a
\* successful adaptive retake, which sets it to 0.
C5_ScoreChanges ==
    [][/\ SubmitStep =>
            score' = score + (IF selectedOption = currentQuestion.correct_answer
                              THEN 1 ELSE 0)
       /\ (QuizViewMounted /\ QuizViewMounted' /\ score' # score) =>
            \/ SubmitStep /\ selectedOption # NoSelection
            \/ RetakeResetStep /\ score' = 0]_vars

C5_Witness ==
    /\ mounted /\ QuizViewMounted /\ ~isFinishing
    /\ currentIdx = 1 /\ isAnswered /\ score = 1
    /\ selectedOption # currentQuestion.correct_answer

ExactlyOneOption(q) ==
    Cardinality({k \in DOMAIN q.options : q.options[k] = q.correct_answer}) = 1

\* C9: every question of currentQuiz names as correct_answer exactly one
\* of its options.
C9_AnswerIsOneOption ==
    currentQuiz.def =>
        \A k \in DOMAIN currentQuiz.qs : ExactlyOneOption(currentQuiz.qs[k])

\* C10: no artifact shown in a Ready view, and no quiz shown, is what an
\* empty service payload parses to.
C10_NoEmptyPayloadInState ==
    /\ (mounted /\ appState \in ReadyViews) =>
          /\ summaryData.null \/ summaryData.v # EmptyObject
          /\ kgData.null \/ kgData.v # EmptyObject
          /\ topics.def
    /\ (mounted /\ QuizViewMounted) => currentQuiz.def

\* C11: the knowledge graph held in kgData has no relationship whose source
\* or target is not the id of one of its entities.
C11_KgEndpointsDeclared ==
    (~kgData.null /\ kgData.v.shape = "kg") => ~kgData.v.dangling

\* The suspended runPipeline executions.
Runs(B) == { p \in BagToSet(B) : p.kind = "runPipeline" }

\* C12: a run calls generateGeneralSummary, extractKnowledgeGraph and
\* extractTopics in this order with the text it was started with: its first
\* stage is called when the run starts, the call of stage k+1 is issued in
\* the step in which the call of stage k returned (whose artifact is then
\* in state under the run's tag), and a run whose stage failed has no call
\* any more.
C12_StageOrder ==
    [][\A q \in Runs(procs') :
          /\ q.call.fn = StageFn[q.stage]
          /\ trim(q.text) # ""
          /\ q.stage >= 2 => ~summaryData'.null /\ summaryData'.run = q.run
          /\ q.stage >= 3 => ~kgData'.null /\ kgData'.run = q.run
          /\ \/ /\ q.stage = 1 /\ q.call = withRetryStart(StageFn[1])
                /\ runGen' = runGen + 1 /\ q.run = runGen'
                /\ Runs(procs) = {}
             \/ \E p \in Runs(procs) :
                   /\ p.run = q.run /\ p.text = q.text /\ runGen' = runGen
                   /\ \/ q.stage = p.stage
                      \/ /\ q.stage = p.stage + 1
                         /\ p.call.phase = "fn"
                         /\ q.call = withRetryStart(StageFn[q.stage])]_vars

C12_Witness ==
    \E p \in Runs(procs) :
        p.stage = 3 /\ p.call.phase = "fn" /\ p.call.nCalls = 2

\* The service calls awaiting an answer: the suspended handlers whose
\* withRetry is inside fn (not in its backoff timer).
CallsInFlight ==
    BagCardinality([p \in { q \in InFlight : q.kind # "handleFileChange"
                                             /\ q.call.phase = "fn" } |->
                       procs[p]])

\* C13: at most one reasoning-service call awaits its answer at any time.
C13_OneCallInFlight == CallsInFlight <= 1

\* C14: at most one runPipeline execution is suspended at any time, and
\* while one is, appState is ANALYZING and no file is being loaded; a run
\* starts only in a step taken in IDLE with no run in progress, which
\* leaves ANALYZING and this one run.
C14_OneRunAtATime ==
    [][/\ Cardinality(Runs(procs')) <= 1
       /\ \A q \in Runs(procs') : procs'[q] = 1
       /\ Runs(procs') # {} =>
             /\ appState' = "ANALYZING"
             /\ \A q \in BagToSet(procs') : q.kind # "handleFileChange"
       /\ runGen' # runGen =>
             /\ appState = "IDLE" /\ Runs(procs) = {}
             /\ appState' = "ANALYZING" /\ runGen' = runGen + 1
             /\ \E q \in Runs(procs') : q.run = runGen' /\ q.stage = 1]_vars

C14_Witness ==
    \E p \in Runs(procs) : p.upload /\ p.run = 2 /\ p.stage = 2

\* A handleAdaptiveRetake whose QuizView is still mounted.
LiveRetake(p) == p.kind = "handleAdaptiveRetake" /\ p.live
\* The step leaves a live handleAdaptiveRetake suspended.
StaysLive == \E q \in BagToSet(procs') : LiveRetake(q)
\* The step ends p in its catch block (console.error).
Fails(p) == Ends(p) /\ report'.error # NoError

\* C15: from the start of a live session's adaptive retake to its failure,
\* every step leaves the questions, score, index, selection, answered flag
\* and Completed flag as they were; the session is Completed with
\* isAdapting set during the call, and the failure clears isAdapting.
C15_RetakeFailureFrame ==
    [][\A p \in InFlight :
          (LiveRetake(p) /\ (StaysLive \/ Fails(p))) =>
             /\ isFinishing /\ isAdapting
             /\ UNCHANGED <<currentQuiz, score, currentIdx, selectedOption,
                            isAnswered, isFinishing>>
             /\ isAdapting' = StaysLive]_vars


\* The step ends the handleAdaptiveRetake execution p with a quiz returned
\* (its catch block logged nothing).
Succeeds(p) ==
    p.kind = "handleAdaptiveRetake" /\ Ends(p) /\ report'.error = NoError

\* C16: when the handleAdaptiveRetake of the session shown succeeds, and
\* whenever a succeeding handleAdaptiveRetake replaces the questions of a
\* session that is shown, the same step puts the session at question 0 with
\* score 0, no selection, not answered and not completed: the new questions
\* are never shown with the score, index, selection or completed flag that
\* were there before.
C16_RetakeSuccessResets ==
    [][\A p \in InFlight :
          (/\ Succeeds(p) /\ QuizViewMounted
           /\ p.live \/ currentQuiz' # currentQuiz) =>
              /\ QuizNow' = QuizFresh
              /\ mounted' => currentQuiz'.def /\ currentQuiz'.qs \in Quizzes]_vars


\* The step keeps the QuizView instance that is mounted.
SameSession == QuizViewMounted /\ QuizViewMounted'
\* The last question is shown, answered.
LastAnswered ==
    ~isFinishing /\ isAnswered /\ currentIdx = Len(questions) - 1

\* C17: a step that moves a session on from its last question, answered,
\* puts it on the "Quiz Complete!" page with index and score as they were;
\* a session on that page stays there with index, score, selection and
\* answered flag unchanged, and leaves it for a question only in the step
\* in which its own handleAdaptiveRetake succeeds.
C17_CompletedIsFinal ==
    [][SameSession =>
         /\ (LastAnswered /\ QuizNow' # QuizNow) =>
               QuizNow' = [QuizNow EXCEPT !.isFinishing = TRUE]
         /\ (isFinishing /\ isFinishing') =>
               UNCHANGED <<currentIdx, score, selectedOption, isAnswered>>
         /\ (isFinishing /\ ~isFinishing') =>
               \E p \in InFlight : LiveRetake(p) /\ Succeeds(p)]_vars

C17_Witness ==
    /\ mounted /\ QuizViewMounted /\ isFinishing /\ isAdapting
    /\ Len(questions) = 2 /\ currentIdx = 1 /\ score = 1


\* A select: the selection of the unanswered question shown changes.
SelectStep ==
    /\ SameSession /\ ~isFinishing /\ ~isAnswered
    /\ selectedOption' # selectedOption

\* C18: a select on an unanswered question puts one of the question's
\* options in selectedOption and changes nothing else of the session
\* (index, score, answered and completed flags, questions); the submit that
\* follows leaves selectedOption as the last select set it and adds 1 to
\* score exactly when that option is the question's correct_answer.
C18_SelectOnlyOverwrites ==
    [][/\ SelectStep =>
            /\ QuizNow' = [QuizNow EXCEPT !.selectedOption = selectedOption']
            /\ \E k \in DOMAIN currentQuestion.options :
                  selectedOption' = currentQuestion.options[k]
            /\ UNCHANGED currentQuiz
       /\ SubmitStep =>
            /\ UNCHANGED <<selectedOption, currentIdx>>
            /\ score' - score =
                 IF selectedOption = currentQuestion.correct_answer
                 THEN 1 ELSE 0]_vars

C18_Witness ==
    /\ QuestionShown /\ ~isAnswered /\ selectedOption = "a"
    /\ currentIdx = 1 /\ score = 1


\* C19: once the question shown is answered, and on the "Quiz Complete!"
\* page, no select changes selectedOption: within a session it changes
\* only by being cleared, when the session moves to the next question or is
\* reset by its successful retake.
C19_NoSelectAfterSubmit ==
    [][(/\ SameSession /\ (isAnswered \/ isFinishing)
        /\ selectedOption' # selectedOption) =>
           /\ selectedOption' = NoSelection /\ ~isAnswered'
           /\ \/ ~isFinishing /\ currentIdx' = currentIdx + 1
              \/ isFinishing /\ QuizNow' = QuizFresh]_vars

C19_Witness ==
    /\ mounted /\ QuizViewMounted /\ isFinishing
    /\ selectedOption = "a" /\ score = 0 /\ Len(questions) = 2


\* C20: on an unanswered question, submit does nothing while no option is
\* selected, and once any option of the question has been selected submit
\* is taken and makes the question answered.
C20_SubmitNeedsSelection ==
    (QuestionShown /\ ~isAnswered) =>
        IF selectedOption = NoSelection
        THEN ~ENABLED handleSubmit
        ELSE ENABLED (handleSubmit /\ isAnswered' /\ ~isFinishing'
                      /\ currentIdx' = currentIdx)


\* C21: within a session currentIdx increases only in a step taken from an
\* answered question that is not the last; that step adds exactly 1 to it,
\* clears the selection and the answered flag and leaves score and the
\* completed flag as they were.
C21_AdvanceOnlyFromAnswered ==
    [][(SameSession /\ currentIdx' > currentIdx) =>
          /\ isAnswered /\ ~isFinishing
          /\ currentIdx + 1 < Len(questions)
          /\ QuizNow' = [QuizNow EXCEPT !.currentIdx = currentIdx + 1,
                                        !.selectedOption = NoSelection,
                                        !.isAnswered = FALSE]]_vars

C21_Witness ==
    /\ QuestionShown /\ currentIdx = 1 /\ ~isAnswered
    /\ selectedOption = NoSelection /\ score = 1


\* The directives of total = 5, by score 0..5.
DirectivesOfFive ==
    <<EasierDirective, EasierDirective, EasierDirective,
      NoDirective, NoDirective, AdvancedDirective>>

\* C22: the directive of every adaptive retake in flight, issued with
\* 0 <= score <= total, is the easier one when score is below half of
\* total, the advanced one when score = total, and none otherwise; with
\* total = 5 that is easier for 0, 1, 2, none for 3, 4 and advanced for 5,
\* and a score of exactly half an even total gets none.
C22_DirectiveSelection ==
    \A p \in InFlight :
       (/\ p.kind = "handleAdaptiveRetake"
        /\ 0 <= p.ctx.score /\ p.ctx.score <= p.ctx.total) =>
          LET s == p.ctx.score
              t == p.ctx.total
              half == t \div 2
              belowHalf == IF t % 2 = 0 THEN s < half ELSE s <= half
          IN  /\ p.ctx.given
              /\ belowHalf => p.directive = EasierDirective
              /\ s = t => p.directive = AdvancedDirective
              /\ (~belowHalf /\ s # t) => p.directive = NoDirective
              /\ t = 5 => p.directive = DirectivesOfFive[s + 1]
              /\ (t % 2 = 0 /\ s = half) => p.directive = NoDirective

C22_Witness ==
    \E p \in InFlight :
       /\ p.kind = "handleAdaptiveRetake" /\ p.live
       /\ p.ctx = Context(2, 5) /\ p.directive = EasierDirective
       /\ p.call.nCalls = 2


\* C23: the step in which a stage call of a pipeline run ends in failure
\* ends the run with appState IDLE, starts no other run and re-issues no
\* stage, and alerts the quota message when the failure is RateLimited and
\* the analysis-failed message when it is of any other class.
C23_FailureEndsRun ==
    [][\A p \in Runs(procs) :
          (Ends(p) /\ report'.error # NoError) =>
             /\ appState' = "IDLE"
             /\ Runs(procs') = {} /\ runGen' = runGen
             /\ report'.alert =
                  IF Classify(report'.error) = "RateLimited"
                  THEN QuotaMessage ELSE FailedMessage]_vars

C23_Witness ==
    /\ mounted /\ appState = "IDLE" /\ ~RunInProgress /\ runGen = 2
    /\ report.alert = QuotaMessage
    /\ Classify(report.error) = "RateLimited"


\* The artifacts of the session and the view.
Shown == <<appState, summaryData, kgData, topics, currentQuiz, selectedTopic>>

\* C24: no run is ever started on a text that is empty or blank: with such
\* a text in the input the Analyze button does nothing, and when an uploaded
\* file yields such a text the upload ends with the view, the artifacts, the
\* run counter and the calls in flight as they were.
C24_BlankTextDoesNothing ==
    [][/\ \A q \in Runs(procs') : trim(q.text) # ""
       /\ (trim(lectureText) = "" /\ ~isProcessingFile) =>
             ~ENABLED handleAnalyze
       /\ \A p \in InFlight :
             (/\ p.kind = "handleFileChange" /\ Ends(p)
              /\ report'.error = NoError) =>
                /\ trim(lectureText') = ""
                /\ UNCHANGED <<Shown, runGen>>
                /\ CallsInFlight' = CallsInFlight]_vars

C24_Witness ==
    /\ mounted /\ appState = "IDLE" /\ runGen = 0 /\ procs = EmptyBag
    /\ lectureText = " " /\ uploadedFileName # NoFileName
    /\ ~isProcessingFile


\* C25: the step that takes the session from a Ready view to IDLE
\* ("New Analysis") leaves no summary, no knowledge graph, no topics, no
\* quiz and no selected topic in the state.
C25_NewAnalysisDiscards ==
    [][(appState \in ReadyViews /\ appState' = "IDLE") =>
          /\ summaryData'.null /\ kgData'.null
          /\ topics'.def /\ topics'.list = <<>>
          /\ currentQuiz'.def /\ currentQuiz'.qs = <<>>
          /\ selectedTopic'.null]_vars


\* The run p made Summary's call once and KnowledgeGraph's three times (two
\* calls failed and were retried), and awaits the first call of Topics.
ScenarioRun(p) ==
    /\ p.kind = "runPipeline" /\ trim(p.text) # ""
    /\ p.stage = 3 /\ p.done = <<1, 3>>
    /\ p.call.phase = "fn" /\ p.call.nCalls = 1

\* C26: a run keeps to its stage while the stage's call is retried and
\* moves on by one stage at a time, so a retry of KnowledgeGraph calls
\* Summary no second time; KnowledgeGraph succeeding on its third call has
\* started exactly 2 backoff delays; and when, after one Summary call that
\* returned a summary and three KnowledgeGraph calls the last of which
\* returned a graph, the first Topics call returns topics, the run ends on
\* the summary page with a summary, a knowledge graph and topics that are
\* all its own.
C26_EndToEnd ==
    [][\A p \in Runs(procs) :
          /\ \A q \in Runs(procs') :
                /\ q.stage \in {p.stage, p.stage + 1}
                /\ Len(q.done) = q.stage - 1
                /\ q.stage = p.stage =>
                      q.done = p.done /\ UNCHANGED <<summaryData, kgData>>
                /\ q.stage = p.stage + 1 =>
                      q.done = Append(p.done, p.call.nCalls)
                /\ (p.stage = 2 /\ q.stage = 3 /\ p.call.nCalls = 3) =>
                      p.call.nDelays = 2
          /\ (/\ ScenarioRun(p) /\ Ends(p)
              /\ summaryData.v.shape = "summary" /\ kgData.v.shape = "kg"
              /\ report'.error = NoError /\ topics'.def) =>
                /\ mounted' /\ appState' = "SUMMARY_VIEW"
                /\ ~summaryData'.null /\ summaryData'.run = p.run
                /\ ~kgData'.null /\ kgData'.run = p.run
                /\ topics'.run = p.run /\ topics'.list # <<>>]_vars

C26_Witness ==
    \E p \in Runs(procs) : ScenarioRun(p) /\ p.text = "T" /\ p.run = 1


\* The service calls the run p has made so far.
RECURSIVE Sum(_)
Sum(s) == IF s = <<>> THEN 0 ELSE Head(s) + Sum(Tail(s))
CallsOf(p) == Sum(p.done) + p.call.nCalls

\* C27: a pipeline run in progress eventually is no longer in progress,
\* whatever the service answers, when every call and every backoff timer
\* completes; meanwhile each of its stage calls is attempted at most 3
\* times, so that it makes at most 9 service calls.
C27_RunTerminates ==
    /\ [](\A p \in Runs(procs) :
             /\ p.call.nCalls <= 3
             /\ \A k \in DOMAIN p.done : p.done[k] <= 3
             /\ CallsOf(p) <= 9)
    /\ RunInProgress ~> (~RunInProgress /\ appState # "ANALYZING")

C27_Witness ==
    \E p \in Runs(procs) :
       /\ p.stage = 3 /\ p.call.phase = "fn" /\ CallsOf(p) = 9
       /\ isQuotaError(p.call.lastError)


\* C28: the k-th backoff delay of a withRetry execution, waited after the
\* failure of attempt k - 1, is at least 1000 * 2^(k-1) ms and at most
\* 1000 ms more: the first lies in [1000, 2000], the second in
\* [2000, 3000], and the second is not shorter than the first.
C28_BackoffBounds ==
    /\ Len(rcLog.delays) <= 2
    /\ \A k \in DOMAIN rcLog.delays :
          /\ 1000 * 2 ^ (k - 1) <= rcLog.delays[k]
          /\ rcLog.delays[k] <= 1000 * 2 ^ (k - 1) + 1000
    /\ Len(rcLog.delays) >= 1 =>
          1000 <= rcLog.delays[1] /\ rcLog.delays[1] <= 2000
    /\ Len(rcLog.delays) = 2 =>
          /\ 2000 <= rcLog.delays[2] /\ rcLog.delays[2] <= 3000
          /\ rcLog.delays[2] >= rcLog.delays[1]

C28_Witness ==
    /\ Len(rcLog.delays) = 2
    /\ rcLog.delays[1] = 1999 /\ rcLog.delays[2] = 2000
    /\ rc.phase = "sleep"


\* C29 as stated: a failed run alerts the quota message exactly when the
\* failing stage made 3 attempts, and the analysis-failed message exactly
\* when it made 1.
C29_MessageByAttempts ==
    [][\A p \in Runs(procs) : Fails(p) =>
          /\ report'.alert = QuotaMessage <=> p.call.nCalls = 3
          /\ report'.alert = FailedMessage <=> p.call.nCalls = 1]_vars

\* C29, amended: withRetry's isQuotaError and runPipeline's isQuota agree
\* on every error; a failed run alerts the quota message exactly when the
\* error that ended the failing stage is a quota error, which is only after
\* 3 attempts, and the analysis-failed message otherwise, which is after 1,
\* 2 or 3 attempts; a stage that failed on its first attempt always alerts
\* the analysis-failed message.
C29_MessageByLastError ==
    [][/\ \A e \in ServiceErrors \cup MarkerErrors \cup {SyntaxError} :
             isQuota(e) <=> isQuotaError(e)
       /\ \A p \in Runs(procs) : Fails(p) =>
             /\ report'.alert \in {QuotaMessage, FailedMessage}
             /\ report'.alert = QuotaMessage <=> isQuotaError(report'.error)
             /\ report'.alert = QuotaMessage => p.call.nCalls = 3
             /\ p.call.nCalls \in 1..3
             /\ p.call.nCalls = 1 => report'.alert = FailedMessage
             /\ p.call.nCalls > 1 => isQuotaError(p.call.lastError)]_vars

C29_Witness ==
    \E p \in Runs(procs) :
       /\ p.stage = 2 /\ p.call.phase = "fn" /\ p.call.nCalls = 2
       /\ isQuotaError(p.call.lastError)


\* C30: a session on the "Quiz Complete!" page is at its last question,
\* answered; every session starts at question 0, unanswered; a question
\* becomes answered only by a submit at the index shown, the index moves
\* only from an answered question to the next, and the page is reached
\* only from the last question, answered: so only after one submit per
\* question, in index order.
C30_CompletedAfterAllSubmits ==
    [][/\ (QuizViewMounted /\ isFinishing) =>
             currentIdx = Len(questions) - 1 /\ isAnswered
       /\ (~QuizViewMounted /\ QuizViewMounted') => QuizNow' = QuizFresh
       /\ SameSession =>
             /\ (~isAnswered /\ isAnswered') =>
                   /\ currentIdx' = currentIdx /\ ~isFinishing'
                   /\ ~NotSelected(selectedOption)
             /\ (currentIdx' # currentIdx /\ QuizNow' # QuizFresh) =>
                   isAnswered /\ ~isAnswered' /\ currentIdx' = currentIdx + 1
             /\ (~isFinishing /\ isFinishing') =>
                   /\ isAnswered /\ currentIdx = Len(questions) - 1
                   /\ UNCHANGED <<currentIdx, isAnswered>>]_vars

\* What generateQuiz can return to handleStartQuiz: resp.quiz of every
\* value the service can answer with.
ReturnedQuizzes ==
    { QuizOf(FnResult(out).val) :
        out \in { o \in ServiceOutcomes("generateQuiz") : ~FnResult(o).threw } }

\* C31: while a handleStartQuiz is suspended appState is ANALYZING and its
\* request carries no adaptive directive; when it ends with a value returned,
\* currentQuiz is resp.quiz of a value the service can return, appState is
\* QUIZ_VIEW and QuizView holds a fresh session (index 0, score 0, no
\* selection, not answered, not completed), which is rendered when the value
\* is a sequence of at least one question; when it ends in its catch block,
\* appState is TOPICS_VIEW and currentQuiz, topics, summaryData and kgData
\* are what they were before the step; no step taken while it is suspended
\* changes appState, topics, summaryData or kgData.
C31_StartQuizOutcome ==
    [][\A p \in InFlight :
          p.kind = "handleStartQuiz" =>
             /\ appState = "ANALYZING"
             /\ p.ctx = NoContext /\ p.directive = NoDirective
             /\ (Ends(p) /\ report'.error = NoError) =>
                   /\ currentQuiz' \in ReturnedQuizzes
                   /\ appState' = "QUIZ_VIEW"
                   /\ QuizNow' = QuizFresh
                   /\ (currentQuiz'.def /\ Len(currentQuiz'.qs) > 0) => mounted'
             /\ (Ends(p) /\ report'.error # NoError) =>
                   /\ appState' = "TOPICS_VIEW"
                   /\ UNCHANGED <<currentQuiz, topics, summaryData, kgData>>
             /\ ~Ends(p) =>
                   /\ appState' = "ANALYZING"
                   /\ UNCHANGED <<topics, summaryData, kgData>>]_vars

\* A second quiz was requested for a topic, with an earlier quiz in state,
\* and the request failed: the topics page is shown with the earlier quiz.
C31_Witness ==
    /\ mounted /\ appState = "TOPICS_VIEW" /\ ~selectedTopic.null
    /\ Len(currentQuiz.qs) = 2
    /\ report.error # NoError
    /\ ~QuizStarting

\* A handleFileChange awaiting extractTextFromFile, and one whose file the
\* loader refuses; a run started by an upload.
Loading(p) == p.kind = "handleFileChange"
LoaderFails(p) == Loading(p) /\ extractTextFromFile(p.file).threw
UploadRun(p) == p.kind = "runPipeline" /\ p.upload

\* C32: the step in which extractTextFromFile refuses the file alerts
\* "Error reading file: " with the loader's message, starts no run (the run
\* counter stays, no run is in progress before or after, so no service call
\* is made), leaves appState IDLE and the text alone, clears
\* uploadedFileName and isProcessingFile.  isProcessingFile is set exactly
\* while a handleFileChange awaits the loader or the run it started; the
\* step that ends that run clears it, and every such run ends.
C32_LoaderFailureSurfaced ==
    /\ [][\A p \in InFlight :
             /\ (LoaderFails(p) /\ Ends(p)) =>
                   /\ report' = LET e == extractTextFromFile(p.file).err
                                IN  Alerted("Error reading file: "
                                            \o (CHOOSE t \in e.tokens : TRUE), e)
                   /\ runGen' = runGen
                   /\ ~RunInProgress /\ ~RunInProgress'
                   /\ appState = "IDLE" /\ appState' = "IDLE"
                   /\ lectureText' = lectureText
                   /\ uploadedFileName' = NoFileName
                   /\ ~isProcessingFile'
             /\ (UploadRun(p) /\ Ends(p)) => ~isProcessingFile'
             /\ (Loading(p) /\ ~LoaderFails(p) /\ Ends(p)) =>
                   /\ report' = NoReport
                   /\ isProcessingFile' = \E q \in BagToSet(procs') : UploadRun(q)]_vars
    /\ [](isProcessingFile <=> \E p \in InFlight : Loading(p) \/ UploadRun(p))
    /\ (\E p \in InFlight : UploadRun(p)) ~> ~isProcessingFile

\* The loader has just refused a PPTX without text: the alert is up on the
\* input page, the file's name is gone and nothing is being processed.
C32_Witness ==
    /\ mounted /\ appState = "IDLE"
    /\ report.alert = "Error reading file: No text content found in PPTX file."
    /\ uploadedFileName = NoFileName /\ ~isProcessingFile
    /\ procs = EmptyBag

\* ------------------------------------------------ claims about FlashcardsView
\* The timers of one handler still pending, and the deck's length.
Pending(h) ==
    Cardinality({ k \in DOMAIN flashcardsView.timers :
                     flashcardsView.timers[k] = h })
DeckLen == Len(flashcardsView.flashcards)
\* The timer that runs in this step is one of handler h.
Fires(h) ==
    /\ flashcardsView.timers # <<>> /\ Head(flashcardsView.timers) = h
    /\ flashcardsView'.timers = Tail(flashcardsView.timers)

\* C33: over a deck of L >= 1 cards the index stays in 0..L-1 whatever the
\* order of clicks and timers; a next timer takes L-1 to 0 and any other
\* index to the one after, a prev timer takes 0 to L-1 and any other index
\* to the one before, and a click moves nothing at once; the index is always
\* (nexts run - prevs run) mod L, so with no timer pending it is
\* (nexts clicked - prevs clicked) mod L, and the same card is back once a
\* next and a prev have both run.
C33_FlashcardIndex ==
    /\ [](/\ DeckLen >= 1
          /\ flashcardsView.currentIdx \in 0..(DeckLen - 1)
          /\ flashcardsView.currentIdx =
                ((clicked.next - Pending("handleNext")) + DeckLen * MaxClicks
                   - (clicked.prev - Pending("handlePrev"))) % DeckLen
          /\ flashcardsView.timers = <<>> =>
                flashcardsView.currentIdx =
                   (clicked.next + DeckLen * MaxClicks - clicked.prev)
                      % DeckLen)
    /\ [][/\ Fires("handleNext") =>
                flashcardsView'.currentIdx =
                   IF flashcardsView.currentIdx = DeckLen - 1 THEN 0
                   ELSE flashcardsView.currentIdx + 1
          /\ Fires("handlePrev") =>
                flashcardsView'.currentIdx =
                   IF flashcardsView.currentIdx = 0 THEN DeckLen - 1
                   ELSE flashcardsView.currentIdx - 1
          /\ clicked' # clicked =>
                /\ flashcardsView'.currentIdx = flashcardsView.currentIdx
                /\ Len(flashcardsView'.timers) = Len(flashcardsView.timers) + 1
          /\ flashcardsView'.flashcards = flashcardsView.flashcards]_vars

\* Three nexts and one prev over three cards, all timers run: the index
\* went round the end of the deck and is (3 - 1) mod 3.
C33_Witness ==
    /\ DeckLen = 3
    /\ clicked = [next |-> 3, prev |-> 1]
    /\ flashcardsView.timers = <<>>
    /\ flashcardsView.currentIdx = 2

=============================================================================
